---- MODULE Spec2Model ----
(***************************************************************************)
(* Model of fetcher.py: main() fetches a list of URLs on a                 *)
(* ThreadPoolExecutor, collects (url, outcome) pairs in completion order   *)
(* and emits them as JSON and/or CSV; the __main__ block is the command    *)
(* line entry.  The main thread and every worker thread are processes of   *)
(* the state machine; each action is one step of one thread.               *)
(***************************************************************************)
EXTENDS Integers, Sequences, FiniteSets, TLC

VARIABLES
    mode,            \* "api": main() called directly; "cli": the __main__ block
    args,            \* argparse Namespace of the __main__ block (<<>> in api mode)
    urls,            \* main's parameter urls
    max_workers,     \* main's parameter max_workers
    output_file,     \* main's parameter output_file (None or a path)
    output_json,     \* main's parameter output_json
    output_csv,      \* main's parameter output_csv
    return_list,     \* main's parameter return_list
    pc,              \* position of the main thread
    exc,             \* exception that left the main thread (None if none)
    submitted,       \* number of urls already passed to executor.submit
    work_queue,      \* executor._work_queue: positions of urls, FIFO
    threads,         \* executor._threads: one record per worker thread
    idle_semaphore,  \* executor._idle_semaphore
    shutdown,        \* executor._shutdown
    future,          \* per position of urls: the Future submit returned
    yielded,         \* positions whose future as_completed has yielded, in order
    results,         \* main's local results
    mapping,         \* the dict built for json.dumps, once it has been built
    stdout,          \* what print has written, one entry per call
    file,            \* content of the file at output_file ("" when empty)
    file_opens,      \* how many times open(output_file, 'w') has run
    retval           \* what main returned

vars == <<mode, args, urls, max_workers, output_file, output_json, output_csv,
          return_list, pc, exc, submitted, work_queue, threads, idle_semaphore,
          shutdown, future, yielded, results, mapping, stdout, file,
          file_opens, retval>>

config == <<mode, args, urls, max_workers, output_file, output_json,
            output_csv, return_list>>
pool == <<work_queue, threads, idle_semaphore, shutdown, future>>
sinks == <<mapping, stdout, file, file_opens, retval>>

----------------------------------------------------------------------------
(* Bounds of the model *)

MaxUrls == 2
MaxWorkers == 2

(* Values *)

None == "None"
UrlPool == {"http://a", "http://b"}
OutPath == "results.out"
InputPath == "urls.txt"
InputFileLines == <<"http://example.com\n", "\n", "  http://example.org \n">>

Range(s) == {s[i] : i \in DOMAIN s}

RECURSIVE SeqsUpTo(_, _)
SeqsUpTo(S, n) ==
    IF n = 0 THEN {<<>>}
    ELSE LET shorter == SeqsUpTo(S, n - 1)
         IN  shorter \cup {Append(s, x) : s \in {q \in shorter : Len(q) = n - 1}, x \in S}

----------------------------------------------------------------------------
(* fetch_url *)

\* How requests.get(url) ends: a response, a requests.RequestException, or
\* an exception that is not a RequestException.
GetEnds == {"response", "RequestException", "OtherException"}

ResponseText(url) == "<html>" \o url \o "</html>"
RequestExceptionText(url) == "ConnectionError " \o url
OtherExceptionText(url) == "ValueError " \o url

\* The except clause of fetch_url.
FetchCatches(end) == end = "RequestException"

\* fetch_url(url) when requests.get ends with `end`: what the call hands to
\* its Future, a returned value or a raised exception.
fetch_url(url, end) ==
    IF end = "response"
        THEN [raised |-> FALSE, val |-> ResponseText(url)]
    ELSE IF FetchCatches(end)
        THEN [raised |-> FALSE, val |-> "Error: " \o RequestExceptionText(url)]
    ELSE [raised |-> TRUE, val |-> OtherExceptionText(url)]

----------------------------------------------------------------------------
(* The formatter's conversions *)

\* Variant of DictSet: a key that is present keeps its first value.
DictSet_keepFirst(d, key, value) ==
    IF \E a \in DOMAIN d : d[a][1] = key THEN d
    ELSE Append(d, <<key, value>>)

\* d[key] = value on a Python dict, kept as its items in insertion order.
RECURSIVE DictSet(_, _, _)
DictSet(d, key, value) ==
    IF d = <<>> THEN <<<<key, value>>>>
    ELSE IF Head(d)[1] = key THEN <<<<key, value>>>> \o Tail(d)
    ELSE <<Head(d)>> \o DictSet(Tail(d), key, value)

\* {url: result for url, result in results}
RECURSIVE DictOf(_)
DictOf(rs) ==
    IF rs = <<>> THEN <<>>
    ELSE LET n == Len(rs)
         IN  DictSet(DictOf(SubSeq(rs, 1, n - 1)), rs[n][1], rs[n][2])

Quote(s) == "\"" \o s \o "\""

RECURSIVE JsonItems(_)
JsonItems(d) ==
    IF d = <<>> THEN ""
    ELSE "  " \o Quote(Head(d)[1]) \o ": " \o Quote(Head(d)[2])
         \o (IF Tail(d) = <<>> THEN "\n" ELSE ",\n" \o JsonItems(Tail(d)))

\* json.dumps(d, indent=2)
JsonDumps(d) == IF d = <<>> THEN "{}" ELSE "{\n" \o JsonItems(d) \o "}"

CsvRow(row) == row[1] \o "," \o row[2] \o "\r\n"

RECURSIVE CsvRows(_)
CsvRows(rs) == IF rs = <<>> THEN "" ELSE CsvRow(Head(rs)) \o CsvRows(Tail(rs))

CsvHeader == CsvRow(<<"URL", "Result">>)

\* csv_writer.writerow(['URL', 'Result']); csv_writer.writerows(results)
CsvText(rs) == CsvHeader \o CsvRows(rs)

CsvRejection == "Cannot output CSV to stdout. Please specify an output file."

\* Variant of OpenW: the file is opened for appending, mode 'a'.
OpenW_append(content) == content

\* open(path, 'w'): the content the file has right after the open.
OpenW(content) == ""

\* if output_file: (None and the empty path are both falsy)
Truthy(path) == path # None /\ path # ""

----------------------------------------------------------------------------
(* The __main__ block's input file *)

Whitespace == {" ", "\n", "\t", "\r"}

RECURSIVE LStrip(_)
LStrip(s) ==
    IF Len(s) > 0 /\ SubSeq(s, 1, 1) \in Whitespace
        THEN LStrip(SubSeq(s, 2, Len(s)))
    ELSE s

RECURSIVE RStrip(_)
RStrip(s) ==
    IF Len(s) > 0 /\ SubSeq(s, Len(s), Len(s)) \in Whitespace
        THEN RStrip(SubSeq(s, 1, Len(s) - 1))
    ELSE s

Strip(s) == LStrip(RStrip(s))

\* [line.strip() for line in f if line.strip()]
RECURSIVE ReadUrls(_)
ReadUrls(lines) ==
    IF lines = <<>> THEN <<>>
    ELSE (IF Strip(Head(lines)) # "" THEN <<Strip(Head(lines))>> ELSE <<>>)
         \o ReadUrls(Tail(lines))

Banner == "Fetch URLs Concurrently Version: 1.0"

\* Defaults of main's signature.
DefaultMaxWorkers == 5

\* The Namespace parse_args() returns: one attribute per add_argument, named
\* by its dest ("input", and the long option names).
Namespaces ==
    [input : {InputPath}, output : {None, OutPath}, json : BOOLEAN,
     csv : BOOLEAN, workers : 1..MaxWorkers]

----------------------------------------------------------------------------
(* The executor *)

NewFuture == [state |-> "UNSUBMITTED", end |-> "", raised |-> FALSE, val |-> ""]
NewThread == [st |-> "get", item |-> 0]
NoMapping == [built |-> FALSE, items |-> <<>>]
NoReturn == [kind |-> "unset", list |-> <<>>]

\* Variant of CanSpawn: no limit on the number of threads.
CanSpawn_unbounded(num_threads, limit) == TRUE

\* Variant of CanSpawn: the limit is taken one too low.
CanSpawn_belowLimit(num_threads, limit) == num_threads < limit - 1

\* ThreadPoolExecutor._adjust_thread_count: a thread is added only below
\* max_workers.
CanSpawn(num_threads, limit) == num_threads < limit

\* Variant of Take: the queue is last in, first out.
Take_lifo(q) == [item |-> q[Len(q)], rest |-> SubSeq(q, 1, Len(q) - 1)]

\* work_queue.get(): the item a worker takes and the queue it leaves.
Take(q) == [item |-> Head(q), rest |-> Tail(q)]

\* Fetches that have entered fetch_url and not left it.
InFlight == {t \in DOMAIN threads : threads[t].st = "call"}

\* Workers that hold a work item: taken from the queue, not yet finished.
Busy == {t \in DOMAIN threads : threads[t].st \in {"run", "call"}}

\* Workers blocked in work_queue.get().
Waiting == {t \in DOMAIN threads : threads[t].st = "get"}

----------------------------------------------------------------------------
(* main's helpers *)

\* Variant of Collect: results keyed by URL, a second pair of a URL replaces
\* the first.
Collect_byUrl(rs, url, data) ==
    IF \E k \in DOMAIN rs : rs[k][1] = url
        THEN [k \in DOMAIN rs |-> IF rs[k][1] = url THEN <<url, data>> ELSE rs[k]]
    ELSE Append(rs, <<url, data>>)

\* results.append((url, data))
Collect(rs, url, data) == Append(rs, <<url, data>>)

\* Variant of MainCatches: `except requests.RequestException`.
MainCatches_transportOnly(end) == end = "RequestException"

\* The except clause around future.result(): `except Exception`, the base
\* class of both kinds of exception requests.get ends with.
MainCatches(end) == end \in {"RequestException", "OtherException"}

\* Variant of AllCollected: the loop is left after the first future.
AllCollected_first == Len(yielded) >= 1 \/ urls = <<>>

\* The for loop over as_completed ends when every future has been yielded.
AllCollected == Len(yielded) = Len(urls)

\* Variant of CsvToStdout: the table is printed.
CsvToStdout_table(rs) == CsvText(rs)

\* What the CSV branch prints when there is no output file.
CsvToStdout(rs) == CsvRejection

----------------------------------------------------------------------------
(* Initial states *)

ApiInit ==
    /\ mode = "api"
    /\ args = <<>>
    /\ urls \in SeqsUpTo(UrlPool, MaxUrls)
    /\ max_workers \in 1..MaxWorkers
    /\ output_file \in {None, OutPath}
    /\ output_json \in BOOLEAN
    /\ output_csv \in BOOLEAN
    /\ return_list \in BOOLEAN
    /\ pc = "submit"

CliInit ==
    /\ mode = "cli"
    /\ args \in Namespaces
    /\ urls = <<>>
    /\ max_workers = DefaultMaxWorkers
    /\ output_file = None
    /\ output_json = FALSE
    /\ output_csv = FALSE
    /\ return_list = FALSE
    /\ pc = "cli"

Init ==
    /\ ApiInit \/ CliInit
    /\ exc = None
    /\ submitted = 0
    /\ work_queue = <<>>
    /\ threads = <<>>
    /\ idle_semaphore = 0
    /\ shutdown = FALSE
    /\ future = [i \in 1..Len(urls) |-> NewFuture]
    /\ yielded = <<>>
    /\ results = <<>>
    /\ mapping = NoMapping
    /\ stdout = <<>>
    /\ file = ""
    /\ file_opens = 0
    /\ retval = NoReturn

----------------------------------------------------------------------------
(* The __main__ block *)

\* print(banner); parse_args(); open(args.input_file); main(urls, ...)
CliMain ==
    /\ pc = "cli"
    /\ stdout' = Append(stdout, Banner)
    /\ IF {"input_file", "max_workers", "output_file"} \subseteq DOMAIN args
       THEN /\ urls' = ReadUrls(InputFileLines)
            /\ max_workers' = args.max_workers
            /\ output_file' = args.output_file
            /\ output_json' = args.json
            /\ output_csv' = args.csv
            /\ future' = [i \in 1..Len(urls') |-> NewFuture]
            /\ pc' = "submit"
            /\ exc' = exc
       ELSE /\ pc' = "raised"
            /\ exc' = "AttributeError"
            /\ UNCHANGED <<urls, max_workers, output_file, output_json,
                           output_csv, future>>
    /\ UNCHANGED <<mode, args, return_list, submitted, work_queue, threads,
                   idle_semaphore, shutdown, yielded, results, mapping, file,
                   file_opens, retval>>

----------------------------------------------------------------------------
(* main: the dispatcher, main thread *)

\* One executor.submit(fetch_url, url) of the dict comprehension: the work
\* item is queued and _adjust_thread_count runs, which starts no thread when
\* it can take _idle_semaphore (a worker has gone idle) or when max_workers
\* threads exist.
Submit ==
    /\ pc = "submit"
    /\ submitted < Len(urls)
    /\ LET i == submitted + 1
       IN  /\ submitted' = i
           /\ future' = [future EXCEPT ![i].state = "PENDING"]
           /\ work_queue' = Append(work_queue, i)
    /\ IF idle_semaphore > 0
       THEN /\ idle_semaphore' = idle_semaphore - 1
            /\ threads' = threads
       ELSE /\ idle_semaphore' = idle_semaphore
            /\ threads' = IF CanSpawn(Len(threads), max_workers)
                              THEN Append(threads, NewThread)
                          ELSE threads
    /\ UNCHANGED <<config, pc, exc, shutdown, yielded, results, sinks>>

\* The dict comprehension is complete: the for loop over as_completed begins.
SubmitDone ==
    /\ pc = "submit"
    /\ submitted = Len(urls)
    /\ pc' = "as_completed"
    /\ UNCHANGED <<config, exc, submitted, pool, yielded, results, sinks>>

\* One iteration of the for loop: as_completed yields a finished future.
AsCompleted(i) ==
    /\ pc = "as_completed"
    /\ i \in DOMAIN future
    /\ i \notin Range(yielded)
    /\ future[i].state = "FINISHED"
    /\ yielded' = Append(yielded, i)
    /\ IF ~future[i].raised
       THEN /\ results' = Collect(results, urls[i], future[i].val)
            /\ UNCHANGED <<pc, exc>>
       ELSE IF MainCatches(future[i].end)
       THEN /\ results' = Collect(results, urls[i],
                                  "Generated an exception: " \o future[i].val)
            /\ UNCHANGED <<pc, exc>>
       ELSE /\ pc' = "raised"
            /\ exc' = future[i].val
            /\ results' = results
    /\ UNCHANGED <<config, submitted, pool, sinks>>

\* The for loop ends and the with block exits: executor.shutdown(wait=True)
\* hands every worker the None sentinel and joins it, which it can do once
\* no worker holds a work item.  No thread is left, and main does not use
\* the executor again: only its shutdown flag is kept.
LoopExit ==
    /\ pc = "as_completed"
    /\ AllCollected
    /\ Busy = {}
    /\ work_queue = <<>>
    /\ shutdown' = TRUE
    /\ threads' = <<>>
    /\ idle_semaphore' = 0
    /\ pc' = "json"
    /\ UNCHANGED <<config, exc, submitted, work_queue, future, yielded, results,
                   sinks>>

----------------------------------------------------------------------------
(* The worker threads *)

\* work_queue.get(block=True) returns a work item.
WorkerGet(t) ==
    /\ threads[t].st = "get"
    /\ work_queue # <<>>
    /\ threads' = [threads EXCEPT ![t] = [st |-> "run", item |-> Take(work_queue).item]]
    /\ work_queue' = Take(work_queue).rest
    /\ UNCHANGED <<config, pc, exc, submitted, idle_semaphore, shutdown, future,
                   yielded, results, sinks>>

\* work_item.run(): the future turns RUNNING and fetch_url is entered.
WorkerRun(t) ==
    /\ threads[t].st = "run"
    /\ future' = [future EXCEPT ![threads[t].item].state = "RUNNING"]
    /\ threads' = [threads EXCEPT ![t].st = "call"]
    /\ UNCHANGED <<config, pc, exc, submitted, work_queue, idle_semaphore,
                   shutdown, yielded, results, sinks>>

\* fetch_url leaves: the future gets its result or its exception, the worker
\* releases executor._idle_semaphore and goes back to work_queue.get().
\* requests.get is called without a timeout: nothing but the fairness of
\* FairSpec makes this step happen.
FetchReturn(t, end) ==
    /\ threads[t].st = "call"
    /\ LET i == threads[t].item
           r == fetch_url(urls[i], end)
       IN  future' = [future EXCEPT ![i] =
                         [state |-> "FINISHED", end |-> end,
                          raised |-> r.raised, val |-> r.val]]
    /\ idle_semaphore' = idle_semaphore + 1
    /\ threads' = [threads EXCEPT ![t] = NewThread]
    /\ UNCHANGED <<config, pc, exc, submitted, work_queue, shutdown, yielded,
                   results, sinks>>

----------------------------------------------------------------------------
(* main: the formatter *)

\* if output_json: ...
EmitJson ==
    /\ pc = "json"
    /\ pc' = "csv"
    /\ IF output_json
       THEN /\ mapping' = [built |-> TRUE, items |-> DictOf(results)]
            /\ IF Truthy(output_file)
               THEN /\ file' = OpenW(file) \o JsonDumps(mapping'.items)
                    /\ file_opens' = file_opens + 1
                    /\ stdout' = stdout
               ELSE /\ stdout' = Append(stdout, JsonDumps(mapping'.items))
                    /\ UNCHANGED <<file, file_opens>>
       ELSE UNCHANGED <<mapping, stdout, file, file_opens>>
    /\ UNCHANGED <<config, exc, submitted, pool, yielded, results, retval>>

\* if output_csv: ...
EmitCsv ==
    /\ pc = "csv"
    /\ pc' = "return"
    /\ IF output_csv
       THEN IF Truthy(output_file)
            THEN /\ file' = OpenW(file) \o CsvText(results)
                 /\ file_opens' = file_opens + 1
                 /\ stdout' = stdout
            ELSE /\ stdout' = Append(stdout, CsvToStdout(results))
                 /\ UNCHANGED <<file, file_opens>>
       ELSE UNCHANGED <<stdout, file, file_opens>>
    /\ UNCHANGED <<config, exc, submitted, pool, yielded, results, mapping,
                   retval>>

\* if return_list: return results, else: return None
Return ==
    /\ pc = "return"
    /\ pc' = "returned"
    /\ retval' = IF return_list THEN [kind |-> "list", list |-> results]
                 ELSE [kind |-> "None", list |-> <<>>]
    /\ UNCHANGED <<config, exc, submitted, pool, yielded, results, mapping,
                   stdout, file, file_opens>>

----------------------------------------------------------------------------

Next ==
    \/ CliMain
    \/ Submit
    \/ SubmitDone
    \/ \E i \in 1..MaxUrls : AsCompleted(i)
    \/ LoopExit
    \/ \E t \in DOMAIN threads : WorkerGet(t)
    \/ \E t \in DOMAIN threads : WorkerRun(t)
    \/ \E t \in DOMAIN threads, end \in GetEnds : FetchReturn(t, end)
    \/ EmitJson
    \/ EmitCsv
    \/ Return

Spec == Init /\ [][Next]_vars

\* The scheduler lets a thread that can take a step take one eventually, and
\* every requests.get eventually ends.
FairSpec == Spec /\ WF_vars(Next)

----------------------------------------------------------------------------
(* Vocabulary of the properties *)

\* main has left the with block: formatting, or returned.
PastDispatch == pc \in {"json", "csv", "return", "returned"}

\* How many entries of the sequence s satisfy the test P.
Count(s, P(_)) == Cardinality({k \in DOMAIN s : P(s[k])})

\* fetch_url has been entered for position i.
Entered(i) == future[i].state \in {"RUNNING", "FINISHED"}

\* The outcome main records for a fetch of url that ended with `end`.
Recorded(url, end) ==
    IF end = "response" THEN ResponseText(url)
    ELSE IF end = "RequestException" THEN "Error: " \o RequestExceptionText(url)
    ELSE "Generated an exception: " \o OtherExceptionText(url)

StartsWith(s, prefix) ==
    Len(s) >= Len(prefix) /\ SubSeq(s, 1, Len(prefix)) = prefix

----------------------------------------------------------------------------
(* Properties *)

\* C1: when main(urls, w, return_list=True) returns, the returned list has
\* one pair per position of urls: its length is len(urls) and every URL
\* occurs in it as often as in urls, and at every moment before that the
\* list holds exactly the pairs of the futures yielded so far.
C1_OnePairPerUrl ==
    /\ Len(results) = Len(yielded)
    /\ \A k \in DOMAIN results : results[k][1] = urls[yielded[k]]
    /\ \A k, l \in DOMAIN yielded : k # l => yielded[k] # yielded[l]
    /\ (pc = "returned" /\ return_list) =>
          /\ retval.kind = "list"
          /\ Len(retval.list) = Len(urls)
          /\ \A u \in UrlPool :
                Count(retval.list, LAMBDA r : r[1] = u)
                    = Count(urls, LAMBDA x : x = u)

\* C1 happens: a list with the same URL twice has been fetched and returned.
C1_Witness ==
    /\ pc = "returned" /\ return_list
    /\ Len(urls) = 2 /\ urls[1] = urls[2]
    /\ Len(retval.list) = 2

\* C2: at most max_workers calls of fetch_url have started and not returned.
C2_InFlightBounded ==
    mode = "api" => Cardinality(InFlight) <= max_workers

\* C2 happens: the pool is full while a URL is still queued.
C2_Witness ==
    /\ Cardinality(InFlight) = max_workers
    /\ work_queue # <<>>

\* C3: no failure of a fetch leaves main; a fetch that ends with a
\* RequestException is recorded as "Error: <cause>", one that ends with any
\* other exception as an error string too, and all URLs still get a result.
C3_FailuresAreRecorded ==
    /\ mode = "api" => (pc # "raised" /\ exc = None)
    /\ \A k \in DOMAIN results :
          LET i == yielded[k]
          IN  /\ results[k] = <<urls[i], Recorded(urls[i], future[i].end)>>
              /\ future[i].end = "RequestException" =>
                    StartsWith(results[k][2], "Error: ")
              /\ future[i].end = "OtherException" =>
                    StartsWith(results[k][2], "Generated an exception: ")
    /\ PastDispatch => Len(results) = Len(urls)

\* C3 happens: one fetch raised a non-transport exception, another a
\* transport error, and main went on to return both results.
C3_Witness ==
    /\ pc = "returned"
    /\ Len(results) = 2
    /\ \E i, j \in DOMAIN future :
          /\ future[i].end = "OtherException"
          /\ future[j].end = "RequestException"

\* Something has been formatted, emitted or returned by main.
Emitted ==
    \/ PastDispatch
    \/ mapping.built
    \/ file_opens > 0 \/ file # ""
    \/ retval.kind # "unset"
    \/ \E k \in DOMAIN stdout : stdout[k] # Banner

\* C4: nothing is formatted, emitted or returned while a submitted fetch is
\* pending or in flight; what is emitted is computed from the full list.
C4_EmitAfterAllFetches ==
    /\ Emitted =>
          /\ submitted = Len(urls)
          /\ work_queue = <<>>
          /\ Busy = {}
          /\ \A i \in DOMAIN future : future[i].state = "FINISHED"
          /\ Len(results) = Len(urls)
    /\ mapping.built => mapping.items = DictOf(results)
    /\ retval.kind = "list" => retval.list = results

\* C4 happens: two URLs went through one worker and JSON was printed.
C4_Witness ==
    /\ pc = "returned"
    /\ Len(urls) = 2 /\ max_workers = 1
    /\ output_json /\ ~Truthy(output_file) /\ Len(stdout) = 1

\* C5: with output_csv and no output_file, main prints the rejection
\* message, writes no file, prints no CSV text, raises nothing, and still
\* returns the complete list when return_list is set.
C5_CsvToStdoutRejected ==
    (pc \in {"return", "returned"} /\ output_csv /\ ~Truthy(output_file)) =>
        /\ stdout = (IF output_json THEN <<JsonDumps(DictOf(results))>> ELSE <<>>)
                        \o <<CsvRejection>>
        /\ \A k \in DOMAIN stdout : ~StartsWith(stdout[k], CsvHeader)
        /\ file_opens = 0 /\ file = ""
        /\ exc = None
        /\ (pc = "returned" /\ return_list) =>
              /\ retval = [kind |-> "list", list |-> results]
              /\ Len(results) = Len(urls)

\* C5 happens: CSV without a file was asked for together with return_list.
C5_Witness ==
    /\ pc = "returned"
    /\ output_csv /\ output_file = None /\ return_list
    /\ Len(retval.list) = 2

\* C6: the JSON mapping has one key per distinct URL of the result list, and
\* each key carries the outcome of the last pair with that URL; the emitted
\* text is the dump of that mapping.
C6_JsonLastWins ==
    mapping.built =>
        LET d == mapping.items
        IN  /\ \A a, b \in DOMAIN d : a # b => d[a][1] # d[b][1]
            /\ {d[a][1] : a \in DOMAIN d} = {results[k][1] : k \in DOMAIN results}
            /\ \A a \in DOMAIN d :
                  \E k \in DOMAIN results :
                      /\ results[k] = d[a]
                      /\ \A l \in DOMAIN results :
                            results[l][1] = d[a][1] => l <= k
            /\ pc = "csv" =>
                  IF Truthy(output_file) THEN file = JsonDumps(d)
                  ELSE stdout = <<JsonDumps(d)>>

\* C6 happens: the same URL was fetched twice with two outcomes and the
\* mapping has the single key.
C6_Witness ==
    /\ mapping.built
    /\ Len(results) = 2
    /\ results[1][1] = results[2][1]
    /\ results[1][2] # results[2][2]
    /\ mapping.items = <<results[2]>>

\* C7: the command line entry, given the file with a URL, a blank line and a
\* second URL, ends having dispatched two URLs and produced two results.
C7_CliFetchesTwoUrls ==
    (mode = "cli" /\ pc \in {"raised", "returned"}) =>
        /\ pc = "returned"
        /\ urls = ReadUrls(InputFileLines)
        /\ submitted = 2
        /\ Len(results) = 2

\* Work-conserving pool: once all URLs are submitted, a queued URL means
\* that max_workers workers hold a task or that a worker waits at the queue.
WorkConserving ==
    (mode = "api" /\ submitted = Len(urls) /\ work_queue # <<>>) =>
        \/ Cardinality(Busy) = max_workers
        \/ Waiting # {}

\* fetch_url is entered in input order.
StartsInInputOrder ==
    \A i, j \in DOMAIN future : (i < j /\ Entered(j)) => Entered(i)

\* URLs are submitted and taken from the queue in input order: the queue
\* holds the last submitted positions, ascending.
TakenInInputOrder ==
    \A k \in DOMAIN work_queue :
        work_queue[k] = submitted - Len(work_queue) + k

\* C8 as stated: the fetch for urls[j] never starts before the one for
\* urls[i], i < j, and the pool is work-conserving.
C8_StartOrderAndWorkConserving ==
    StartsInInputOrder /\ WorkConserving

\* C8 as amended: URLs are submitted and taken by the workers in input
\* order, so with one worker the fetches start in input order (with more,
\* the calls of fetch_url may be entered out of order), and the pool is
\* work-conserving.
C8_TakeOrderAndWorkConserving ==
    /\ TakenInInputOrder
    /\ max_workers = 1 => StartsInInputOrder
    /\ WorkConserving

\* C8 happens: the second URL's fetch is running, the first one's has been
\* taken by a worker and not entered yet.
C8_Witness ==
    /\ Len(urls) = 2
    /\ future[2].state = "RUNNING"
    /\ future[1].state = "PENDING"
    /\ work_queue = <<>>

\* C9: with output_json, output_csv and one output_file, the file is opened
\* for writing twice, JSON first; after main the file holds the CSV table
\* alone and nothing went to standard output.
C9_CsvOverwritesJson ==
    (output_json /\ output_csv /\ Truthy(output_file)) =>
        /\ pc = "csv" => (file_opens = 1 /\ file = JsonDumps(DictOf(results)))
        /\ pc \in {"return", "returned"} =>
              /\ file_opens = 2
              /\ file = CsvText(results)
              /\ stdout = <<>>

\* C9 happens: main has returned after writing both formats of two results.
C9_Witness ==
    /\ pc = "returned"
    /\ output_json /\ output_csv /\ output_file = OutPath
    /\ Len(results) = 2
    /\ file_opens = 2

\* C10: under fair scheduling, with every fetch_url call returning or
\* raising, main returns; and for as long as a fetch has not returned main
\* reaches neither formatting nor its return.
C10_Termination ==
    /\ (mode = "api") ~> (pc = "returned")
    /\ []((\E i \in DOMAIN future : future[i].state \in {"PENDING", "RUNNING"})
            => ~PastDispatch)

\* C10 happens: main has returned for more URLs than workers.
C10_Witness ==
    /\ pc = "returned"
    /\ Len(urls) > max_workers

====
